---- MODULE Spec2Model ----
(***************************************************************************)
(* One invocation of main.py: resolution of the API key, base URL and      *)
(* assistant id from the environment and the command line, selection of    *)
(* one of List / Get / UpdateIdle, the single HTTP request, and the        *)
(* handling of its response.                                               *)
(*                                                                         *)
(* Python values are encoded as follows.                                   *)
(*   Optional string (None or str): <<>> is None, <<s>> is the string s.   *)
(*   URL text: a sequence of tokens, "/" being the slash character and     *)
(*     every other token a slash-free piece of text.                       *)
(*   JSON field of an object: [p |-> "absent" | "null" | "list" | "num",   *)
(*     v |-> the sequence when p = "list"].                                *)
(*   JSON numbers that are only ever printed are kept as their decimal     *)
(*     text ("10"), which is what the f-strings print.                     *)
(***************************************************************************)
EXTENDS Integers, Sequences, FiniteSets, TLC

\* ------------------------------------------------------------------ bounds
MaxArgs == 2
MaxSlashes == 2
MaxEntries == 2

VARIABLES
    env,            \* os.environ after load_dotenv()
    argv,           \* sys.argv, argv[1] being the program name (Python's sys.argv[0])
    srv,            \* what the remote service answers to this invocation's request
    pc,             \* "start"; "list_wait", "get_wait", "patch_wait" (request sent);
                    \* "done" (main returned); "raised" (exception while handling
                    \* the response); "failed" (the request itself raised)
    api_key,        \* main's local api_key
    api_url,        \* main's local api_url
    assistant_id,   \* main's local assistant_id
    branch,         \* the return statement of main that was taken ("L107" ...), "" before
    requests,       \* the HTTP requests issued so far, in order
    out,            \* the lines printed so far
    rc              \* main's return value: <<>> while none, <<n>> once returned

vars == <<env, argv, srv, pc, api_key, api_url, assistant_id, branch, requests, out, rc>>

\* ------------------------------------------------------- Python primitives
None == <<>>

Some(s) == <<s>>

\* Truth value of an optional string: None and "" are falsy.
Truthy(o) == o # None /\ o[1] # ""

\* a or b
PyOr(a, b) == IF Truthy(a) THEN a ELSE b

\* sys.argv[i] if len(sys.argv) > i else None   (i is Python's 0-based index)
ArgvAt(args, i) == IF Len(args) > i THEN Some(args[i + 1]) ELSE None

\* x in sys.argv
InArgv(x, args) == \E i \in 1..Len(args) : args[i] = x

RECURSIVE rstrip(_, _)
rstrip(s, ch) ==
    IF s # <<>> /\ s[Len(s)] = ch THEN rstrip(SubSeq(s, 1, Len(s) - 1), ch) ELSE s

\* --------------------------------------------------------- JSON encodings
Absent == [p |-> "absent", v |-> <<>>]

Null == [p |-> "null", v |-> <<>>]

Num == [p |-> "num", v |-> <<>>]

List(s) == [p |-> "list", v |-> s]

\* Truth value of a JSON field as seen through dict.get(): a missing key gives
\* None, null is None, an empty list is falsy, a non-zero number is truthy.
FieldTruthy(f) == (f.p = "list" /\ f.v # <<>>) \/ f.p = "num"

NoPlan == [p |-> "absent", idleMessages |-> Absent,
           idleTimeoutSeconds |-> None, idleMessageMaxSpokenCount |-> None]

NullPlan == [p |-> "null", idleMessages |-> Absent,
             idleTimeoutSeconds |-> None, idleMessageMaxSpokenCount |-> None]

Plan(msgs, t, c) == [p |-> "obj", idleMessages |-> msgs,
                     idleTimeoutSeconds |-> t, idleMessageMaxSpokenCount |-> c]

\* A response body.  kind: "text" (not JSON), "scalar" (a JSON number or string),
\* "list" (a JSON array, in items), "obj" (a JSON object, in the other fields).
Body(kind, items, assistants, data, name, id, silence, plan) ==
    [kind |-> kind, items |-> items, assistants |-> assistants, data |-> data,
     name |-> name, id |-> id, silenceTimeoutSeconds |-> silence, messagePlan |-> plan]

TextBody == Body("text", <<>>, Absent, Absent, None, None, None, NoPlan)

ScalarBody == Body("scalar", <<>>, Absent, Absent, None, None, None, NoPlan)

ListBody(items) == Body("list", items, Absent, Absent, None, None, None, NoPlan)

WrappedBody(assistants, data) ==
    Body("obj", <<>>, assistants, data, None, None, None, NoPlan)

DetailBody(name, id, silence, plan) ==
    Body("obj", <<>>, Absent, Absent, name, id, silence, plan)

\* An entry of an assistants list: a JSON object with optional name and id, or a
\* JSON value that is not an object.
DictEntry(name, id) == [dict |-> TRUE, name |-> name, id |-> id]

NonDictEntry == [dict |-> FALSE, name |-> None, id |-> None]

\* ------------------------------------------------------- printed output
\* One printed line (or block, for usage()): a tag and the values shown in it.
\* A value that is None prints as the text "None".
Shown(o) == IF o = None THEN "None" ELSE o[1]

usage == <<[k |-> "usage"]>>

\* --------------------------------------------------------------- requests
DefaultApiUrl == <<"https:", "/", "/", "api.vapi.ai">>

Timeout == 30

TruthyListTokens == {"1", "true", "TRUE"}

\* Mutant: the two timeouts are exchanged.
update_data_TimeoutsSwapped ==
    [messagePlan |->
        [idleMessages |-> <<"Are you still there?">>,
         idleTimeoutSeconds |-> 30,
         idleMessageMaxSpokenCount |-> 2,
         idleMessageResetCountOnUserSpeechEnabled |-> TRUE],
     silenceTimeoutSeconds |-> 10]

\* update_data of update_assistant_idle_messages
update_data ==
    [messagePlan |->
        [idleMessages |-> <<"Are you still there?">>,
         idleTimeoutSeconds |-> 10,
         idleMessageMaxSpokenCount |-> 2,
         idleMessageResetCountOnUserSpeechEnabled |-> TRUE],
     silenceTimeoutSeconds |-> 30]

\* f"{api_url.rstrip('/')}/assistant"
list_url(url) == rstrip(url, "/") \o <<"/", "assistant">>

\* f"{api_url.rstrip('/')}/assistant/{assistant_id}"
assistant_url(url, id) == rstrip(url, "/") \o <<"/", "assistant", "/", id>>

\* headers = {"Authorization": f"Bearer {api_key}"}
AuthHeader(key) == <<"Bearer", key>>

\* requests.get(url, headers=headers, timeout=30) of list_assistants
ListRequest(key, url) ==
    [method |-> "GET", url |-> list_url(url), auth |-> AuthHeader(key),
     ctype |-> None, json |-> <<>>, timeout |-> Timeout]

\* requests.get(url, headers=headers, timeout=30) of get_assistant
GetRequest(key, url, id) ==
    [method |-> "GET", url |-> assistant_url(url, id), auth |-> AuthHeader(key),
     ctype |-> None, json |-> <<>>, timeout |-> Timeout]

\* requests.patch(url, headers=headers, json=update_data, timeout=30)
PatchRequest(key, url, id) ==
    [method |-> "PATCH", url |-> assistant_url(url, id), auth |-> AuthHeader(key),
     ctype |-> Some("application/json"), json |-> <<update_data>>, timeout |-> Timeout]

\* ------------------------------------------------------------------- main
\* Mutant: the key falls back to sys.argv[0], the program name.
ResolveApiKey_ArgvZero(e, args) == PyOr(e.VAPI_API_KEY, ArgvAt(args, 0))

\* api_key = os.environ.get("VAPI_API_KEY") or (sys.argv[1] if len(sys.argv) > 1 else None)
ResolveApiKey(e, args) == PyOr(e.VAPI_API_KEY, ArgvAt(args, 1))

\* api_url = os.environ.get("VAPI_API_URL", "https://api.vapi.ai")
ResolveApiUrl(e) == IF e.VAPI_API_URL = <<>> THEN DefaultApiUrl ELSE e.VAPI_API_URL[1]

\* assistant_id = os.environ.get("VAPI_ASSISTANT_ID") or (sys.argv[2] if len(sys.argv) > 2 else None)
ResolveAssistantId(e, args) == PyOr(e.VAPI_ASSISTANT_ID, ArgvAt(args, 2))

\* Mutant: a missing assistant id no longer selects List.
ListSelected_NoIdFallback(e, args, id) ==
    \/ InArgv("--list", args)
    \/ (e.VAPI_LIST # None /\ e.VAPI_LIST[1] \in TruthyListTokens)

\* "--list" in sys.argv or os.environ.get("VAPI_LIST") in {"1", "true", "TRUE"} or not assistant_id
ListSelected(e, args, id) ==
    \/ InArgv("--list", args)
    \/ (e.VAPI_LIST # None /\ e.VAPI_LIST[1] \in TruthyListTokens)
    \/ ~Truthy(id)

\* Mutant: --update-idle is tested before --get.
MainReturn_UpdateBeforeGet(e, args, key, id) ==
    IF ~Truthy(key) THEN "L107"
    ELSE IF ListSelected(e, args, id) THEN "L111"
    ELSE IF InArgv("--update-idle", args) THEN (IF ~Truthy(id) THEN "L123" ELSE "L124")
    ELSE IF InArgv("--get", args) THEN (IF ~Truthy(id) THEN "L116" ELSE "L117")
    ELSE IF Truthy(id) THEN "L132"
    ELSE "L135"

\* The return statement main reaches, named by its source line.
MainReturn(e, args, key, id) ==
    IF ~Truthy(key) THEN "L107"
    ELSE IF ListSelected(e, args, id) THEN "L111"
    ELSE IF InArgv("--get", args) THEN (IF ~Truthy(id) THEN "L116" ELSE "L117")
    ELSE IF InArgv("--update-idle", args) THEN (IF ~Truthy(id) THEN "L123" ELSE "L124")
    ELSE IF Truthy(id) THEN "L132"
    ELSE "L135"

\* What main prints before it returns or before the operation's request is sent.
MainPrints(b, id) ==
    CASE b = "L107" -> <<[k |-> "ApiKeyRequired"]>> \o usage
      [] b = "L116" -> <<[k |-> "AssistantIdRequired"]>>
      [] b = "L123" -> <<[k |-> "AssistantIdRequired"], [k |-> "RunListFirst"]>>
      [] b = "L124" -> <<[k |-> "Updating", v |-> Shown(id)]>>
      [] b = "L135" -> usage
      [] OTHER -> <<>>

\* Mutant: Get first lists the assistants, then fetches the one.
MainRequest_ListThenGet(b, key, url, id) ==
    CASE b = "L111" -> <<ListRequest(key[1], url)>>
      [] b \in {"L117", "L132"} -> <<ListRequest(key[1], url), GetRequest(key[1], url, id[1])>>
      [] b = "L124" -> <<PatchRequest(key[1], url, id[1])>>
      [] OTHER -> <<>>

\* The request the operation called at return statement b sends.
MainRequest(b, key, url, id) ==
    CASE b = "L111" -> <<ListRequest(key[1], url)>>
      [] b \in {"L117", "L132"} -> <<GetRequest(key[1], url, id[1])>>
      [] b = "L124" -> <<PatchRequest(key[1], url, id[1])>>
      [] OTHER -> <<>>

MainPc(b) ==
    CASE b = "L111" -> "list_wait"
      [] b \in {"L117", "L132"} -> "get_wait"
      [] b = "L124" -> "patch_wait"
      [] OTHER -> "done"

\* main(), up to the point where the selected operation waits for its response
main ==
    /\ pc = "start"
    /\ LET key == ResolveApiKey(env, argv)
           url == ResolveApiUrl(env)
           id  == ResolveAssistantId(env, argv)
           b   == MainReturn(env, argv, key, id)
       IN /\ api_key' = key
          /\ api_url' = url
          /\ assistant_id' = id
          /\ branch' = b
          /\ out' = out \o MainPrints(b, id)
          /\ requests' = requests \o MainRequest(b, key, url, id)
          /\ pc' = MainPc(b)
          /\ rc' = IF MainPc(b) = "done" THEN <<2>> ELSE rc
    /\ UNCHANGED <<env, argv, srv>>

\* ------------------------------------------------------ response handling
\* Mutant: every 2xx status counts as success.
IsError_Not2xx(status) == status \notin 200..299

\* if resp.status_code != 200:
IsError(status) == status # 200

\* print(f"Error {resp.status_code}: {resp.text}"); the raw text is the body as received
ErrorLine(resp) == [k |-> "Error", n |-> resp.status, text |-> resp.body]

Returned(lines, code) == [out |-> lines, pc |-> "done", rc |-> <<code>>]

\* An unhandled exception while the response is handled: main does not return.
Raised(lines) == [out |-> lines, pc |-> "raised", rc |-> <<>>]

\* An unhandled exception of requests.get / requests.patch: no response, no return.
Failed == [out |-> <<>>, pc |-> "failed", rc |-> <<>>]

\* Mutant: the data field is tried before the assistants field.
SelectAssistants_DataFirst(data) ==
    IF data.kind = "list" THEN List(data.items)
    ELSE IF FieldTruthy(data.data) THEN data.data
    ELSE IF FieldTruthy(data.assistants) THEN data.assistants
    ELSE List(<<>>)

\* data if isinstance(data, list) else data.get("assistants") or data.get("data") or []
SelectAssistants(data) ==
    IF data.kind = "list" THEN List(data.items)
    ELSE IF FieldTruthy(data.assistants) THEN data.assistants
    ELSE IF FieldTruthy(data.data) THEN data.data
    ELSE List(<<>>)

\* name = assistant.get("name") if isinstance(assistant, dict) else getattr(assistant, "name", None)
EntryName(a) == IF a.dict THEN a.name ELSE None

\* a_id = assistant.get("id") if isinstance(assistant, dict) else getattr(assistant, "id", None)
EntryId(a) == IF a.dict THEN a.id ELSE None

\* The body of the for loop of list_assistants
EntryLines(a) ==
    <<[k |-> "Name", v |-> Shown(EntryName(a))],
      [k |-> "ID", v |-> Shown(EntryId(a))],
      [k |-> "Rule"]>>

RECURSIVE AssistantLines(_)
AssistantLines(as) ==
    IF as = <<>> THEN <<>> ELSE EntryLines(Head(as)) \o AssistantLines(Tail(as))

\* list_assistants, from the response on
ListOutcome(resp) ==
    IF IsError(resp.status) THEN Returned(<<ErrorLine(resp)>>, 1)
    ELSE IF resp.body.kind = "text" THEN Raised(<<>>)        \* resp.json() raises
    ELSE IF resp.body.kind = "scalar" THEN Raised(<<>>)      \* data.get raises
    ELSE LET assistants == SelectAssistants(resp.body)
         IN IF assistants.p # "list"
            THEN Raised(<<[k |-> "ListHeader"]>>)            \* iterating a number raises
            ELSE Returned(<<[k |-> "ListHeader"]>> \o AssistantLines(assistants.v), 0)

\* message_plan = assistant.get('messagePlan', {})
MessagePlan(assistant) ==
    IF assistant.messagePlan.p = "absent" THEN Plan(Absent, None, None)
    ELSE assistant.messagePlan

\* Mutant: the presence of the key is tested, not the truth of its value.
IdleConfigured_KeyPresent(plan) == plan.idleMessages.p # "absent"

\* if message_plan.get('idleMessages'):
IdleConfigured(plan) == FieldTruthy(plan.idleMessages)

\* assistant.get('silenceTimeoutSeconds', 30)
SilenceShown(assistant) ==
    IF assistant.silenceTimeoutSeconds = None THEN "30"
    ELSE assistant.silenceTimeoutSeconds[1]

DetailLines(assistant) ==
    <<[k |-> "Name", v |-> Shown(assistant.name)],
      [k |-> "ID", v |-> Shown(assistant.id)],
      [k |-> "Silence", v |-> SilenceShown(assistant)]>>

IdleLines(plan) ==
    IF IdleConfigured(plan)
    THEN <<[k |-> "IdleConfig"],
           [k |-> "Messages", l |-> plan.idleMessages.v],
           [k |-> "Timeout", v |-> Shown(plan.idleTimeoutSeconds)],
           [k |-> "MaxCount", v |-> Shown(plan.idleMessageMaxSpokenCount)]>>
    ELSE <<[k |-> "NoIdle"]>>

\* get_assistant, from the response on
GetOutcome(resp) ==
    IF IsError(resp.status) THEN Returned(<<ErrorLine(resp)>>, 1)
    ELSE IF resp.body.kind = "text" THEN Raised(<<>>)        \* resp.json() raises
    ELSE IF resp.body.kind # "obj"
         THEN Raised(<<[k |-> "DetailHeader"]>>)             \* assistant.get raises
    ELSE IF resp.body.messagePlan.p = "null"
         THEN Raised(<<[k |-> "DetailHeader"]>> \o DetailLines(resp.body))
                                                             \* None.get raises
    ELSE Returned(<<[k |-> "DetailHeader"]>> \o DetailLines(resp.body)
                      \o IdleLines(MessagePlan(resp.body)), 0)

\* update_assistant_idle_messages, from the response on
PatchOutcome(resp) ==
    IF IsError(resp.status) THEN Returned(<<ErrorLine(resp)>>, 1)
    ELSE IF resp.body.kind = "text" THEN Raised(<<>>)        \* resp.json() raises
    ELSE Returned(<<[k |-> "Success"], [k |-> "Timeline"]>>, 0)

Finish(o) ==
    /\ out' = out \o o.out
    /\ pc' = o.pc
    /\ rc' = o.rc
    /\ UNCHANGED <<env, argv, srv, api_key, api_url, assistant_id, branch, requests>>

list_assistants == pc = "list_wait" /\ Finish(ListOutcome(srv))

get_assistant == pc = "get_wait" /\ Finish(GetOutcome(srv))

update_assistant_idle_messages == pc = "patch_wait" /\ Finish(PatchOutcome(srv))

\* requests.get / requests.patch raises (timeout after 30 s, connection failure)
network_error ==
    /\ pc \in {"list_wait", "get_wait", "patch_wait"}
    /\ Finish(Failed)

Next ==
    \/ main
    \/ list_assistants
    \/ get_assistant
    \/ update_assistant_idle_messages
    \/ network_error

\* ----------------------------------------------------------- input spaces
RECURSIVE SeqsUpTo(_, _)
SeqsUpTo(S, n) ==
    IF n = 0 THEN {<<>>}
    ELSE LET shorter == SeqsUpTo(S, n - 1)
         IN shorter \cup {Append(s, x) : s \in {t \in shorter : Len(t) = n - 1}, x \in S}

RECURSIVE Slashes(_)
Slashes(n) == IF n = 0 THEN <<>> ELSE <<"/">> \o Slashes(n - 1)

Flags == {"--list", "--get", "--update-idle"}

ArgTokens == Flags \cup {"k", "a"}

Argvs == {<<"main.py">> \o s : s \in SeqsUpTo(ArgTokens, MaxArgs)}

UrlValues == {None} \cup {Some(<<"h">> \o Slashes(n)) : n \in 0..MaxSlashes}

Envs ==
    [VAPI_API_KEY : {None, Some(""), Some("ek")},
     VAPI_API_URL : UrlValues,
     VAPI_ASSISTANT_ID : {None, Some(""), Some("ea")},
     VAPI_LIST : {None, Some("1"), Some("true"), Some("TRUE"), Some("yes")}]

Entries == {DictEntry(Some("A"), Some("1")), DictEntry(Some("B"), Some("2")),
            DictEntry(None, Some("3")), NonDictEntry}

EntryLists == SeqsUpTo(Entries, MaxEntries)

ListFields == {Absent, Null, Num} \cup {List(s) : s \in EntryLists}

ListBodies ==
    {ListBody(s) : s \in EntryLists}
        \cup {WrappedBody(a, d) : a \in ListFields, d \in ListFields}

MessageFields == {Absent, Null} \cup {List(s) : s \in SeqsUpTo({"m1", "m2"}, MaxEntries)}

Plans ==
    {NoPlan, NullPlan}
        \cup {Plan(m, t, c) : m \in MessageFields, t \in {None, Some("10")},
                              c \in {None, Some("2")}}

DetailBodies ==
    {DetailBody(n, Some("1"), s, p) : n \in {None, Some("A")},
                                      s \in {None, Some("45")}, p \in Plans}

Statuses == {200, 201, 204, 301, 401, 404, 500}

\* Bodies sent with a status other than 200: an error text, or a well-formed body.
OtherBodies ==
    {TextBody, ListBody(<<DictEntry(Some("A"), Some("1"))>>),
     DetailBody(Some("A"), Some("1"), None, Plan(List(<<"m1">>), Some("10"), Some("2")))}

Responses ==
    {[status |-> 200, body |-> b] : b \in ListBodies \cup DetailBodies \cup {TextBody, ScalarBody}}
        \cup {[status |-> s, body |-> b] : s \in Statuses \ {200}, b \in OtherBodies}

FewResponses == {[status |-> s, body |-> b] : s \in {200, 201, 404}, b \in OtherBodies}

Start ==
    /\ pc = "start"
    /\ api_key = None
    /\ api_url = <<>>
    /\ assistant_id = None
    /\ branch = ""
    /\ requests = <<>>
    /\ out = <<>>
    /\ rc = <<>>

\* Every environment and command line, a few responses.
Init ==
    /\ env \in Envs
    /\ argv \in Argvs
    /\ srv \in FewResponses
    /\ Start

Spec == Init /\ [][Next]_vars

\* Every response, with the inputs that select each operation.
InitResponses ==
    /\ env \in [VAPI_API_KEY : {Some("ek")}, VAPI_API_URL : {None},
                VAPI_ASSISTANT_ID : {None, Some("ea")}, VAPI_LIST : {None}]
    /\ argv \in {<<"main.py">>, <<"main.py", "--get">>, <<"main.py", "--update-idle">>}
    /\ srv \in Responses
    /\ Start

SpecResponses == InitResponses /\ [][Next]_vars

\* ------------------------------------------------- the inputs, as given
\* The API key the invocation was given: VAPI_API_KEY when set and non-empty,
\* else the first command-line argument.
KeyGiven ==
    (env.VAPI_API_KEY # <<>> /\ env.VAPI_API_KEY # <<"">>) \/ (Len(argv) >= 2 /\ argv[2] # "")

\* The assistant id the invocation was given: VAPI_ASSISTANT_ID when set and
\* non-empty, else the second command-line argument.
IdGiven ==
    (env.VAPI_ASSISTANT_ID # <<>> /\ env.VAPI_ASSISTANT_ID # <<"">>)
        \/ (Len(argv) >= 3 /\ argv[3] # "")

GivenId ==
    IF env.VAPI_ASSISTANT_ID # <<>> /\ env.VAPI_ASSISTANT_ID # <<"">>
    THEN env.VAPI_ASSISTANT_ID[1] ELSE argv[3]

HasFlag(f) == \E i \in DOMAIN argv : argv[i] = f

ListTrigger ==
    HasFlag("--list") \/ env.VAPI_LIST \in {<<"1">>, <<"true">>, <<"TRUE">>} \/ ~IdGiven

\* {base}: the configured base URL without its trailing slashes.
Base ==
    IF env.VAPI_API_URL = <<>> THEN <<"https:", "/", "/", "api.vapi.ai">>
    ELSE LET u == env.VAPI_API_URL[1]
             n == CHOOSE m \in 0..Len(u) :
                     /\ \A i \in (m + 1)..Len(u) : u[i] = "/"
                     /\ (m > 0 => u[m] # "/")
         IN SubSeq(u, 1, n)

ListUrl == Base \o <<"/", "assistant">>

IdUrl == Base \o <<"/", "assistant", "/", GivenId>>

HasLine(tag) == \E i \in DOMAIN out : out[i].k = tag

\* ------------------------------------------------------------------ claims

\* C1: when no API key is given (VAPI_API_KEY unset or empty, no first
\* command-line argument), main returns 2 and no HTTP request is ever issued,
\* whatever VAPI_LIST and the assistant id are.
C1_NoKeyExit2NoRequest ==
    ~KeyGiven => /\ requests = <<>>
                 /\ pc \in {"start", "done"}
                 /\ (pc = "done" => rc = <<2>>)

C1_Witness ==
    /\ ~KeyGiven /\ pc = "done" /\ rc = <<2>>
    /\ env.VAPI_LIST = <<"1">> /\ env.VAPI_ASSISTANT_ID = <<"ea">>

\* C2: with an API key (here: one set in VAPI_API_KEY), --get present and no
\* assistant id given, main returns 2 and issues no HTTP request.
C2_GetWithoutIdExit2 ==
    (env.VAPI_API_KEY = <<"ek">> /\ HasFlag("--get") /\ ~IdGiven /\ pc # "start")
        => (pc = "done" /\ rc = <<2>> /\ requests = <<>>)

\* C3: with an API key, the single operation main runs is the one the first
\* matching rule selects: a List trigger (--list, VAPI_LIST in {"1","true","TRUE"},
\* or no assistant id) gives one GET to {base}/assistant; else --get gives Get;
\* else --update-idle gives UpdateIdle; else Get on the assistant id.
C3_DispatchChain ==
    (KeyGiven /\ pc # "start") =>
        /\ Len(requests) = 1
        /\ IF ListTrigger
           THEN requests[1].method = "GET" /\ requests[1].url = ListUrl /\ branch = "L111"
           ELSE IF HasFlag("--get")
           THEN requests[1].method = "GET" /\ requests[1].url = IdUrl /\ branch = "L117"
           ELSE IF HasFlag("--update-idle")
           THEN requests[1].method = "PATCH" /\ requests[1].url = IdUrl /\ branch = "L124"
           ELSE requests[1].method = "GET" /\ requests[1].url = IdUrl /\ branch = "L132"

C3_Witness ==
    /\ pc = "get_wait" /\ branch = "L117"
    /\ HasFlag("--get") /\ HasFlag("--update-idle")
    /\ env.VAPI_LIST = <<"yes">>

\* C4: every PATCH request goes to {base}/assistant/{assistant_id} and carries
\* exactly the fixed idle-message payload, whatever the inputs and the response.
C4_PatchFixedPayload ==
    \A i \in DOMAIN requests :
        requests[i].method = "PATCH" =>
            /\ requests[i].url = IdUrl
            /\ requests[i].json =
                 <<[messagePlan |->
                       [idleMessages |-> <<"Are you still there?">>,
                        idleTimeoutSeconds |-> 10,
                        idleMessageMaxSpokenCount |-> 2,
                        idleMessageResetCountOnUserSpeechEnabled |-> TRUE],
                    silenceTimeoutSeconds |-> 30]>>

C4_Witness ==
    /\ pc = "done" /\ rc = <<0>>
    /\ requests # <<>> /\ requests[1].method = "PATCH"
    /\ env.VAPI_API_URL = <<(<<"h", "/", "/">>)>>
    /\ srv.body.messagePlan.p = "obj"

\* C5 (as stated): an operation that returns gives 1 exactly when the response
\* status is not a 2xx status, and 0 for every 2xx status.
C5_Exit1IffNot2xx ==
    (pc = "done" /\ requests # <<>>) =>
        /\ (rc = <<1>> <=> srv.status \notin 200..299)
        /\ (srv.status \in 200..299 => rc = <<0>>)

\* C5 (amended): for List, Get and UpdateIdle alike, an operation that received
\* a response returns 1, after printing the status code and the raw body,
\* exactly when the status is not 200 (so for 401 and 404, and for 201 and 204
\* too), and when it returns on status 200 it returns 0.
C5_Exit1IffNot200 ==
    (pc \in {"done", "raised"} /\ requests # <<>>) =>
        /\ (rc = <<1>> <=> srv.status # 200)
        /\ (srv.status # 200 =>
               /\ pc = "done"
               /\ out[Len(out)] = [k |-> "Error", n |-> srv.status, text |-> srv.body])
        /\ (srv.status = 200 /\ pc = "done" => rc = <<0>>)

C5_Witness ==
    /\ pc = "done" /\ rc = <<1>> /\ srv.status = 201
    /\ requests # <<>> /\ requests[1].method = "PATCH"

\* The (name, id) pairs displayed, in order of display.
RECURSIVE Summaries(_)
Summaries(lines) ==
    IF Len(lines) < 2 THEN <<>>
    ELSE IF lines[1].k = "Name" /\ lines[2].k = "ID"
         THEN <<(<<lines[1].v, lines[2].v>>)>> \o Summaries(SubSeq(lines, 3, Len(lines)))
         ELSE Summaries(Tail(lines))

\* The (name, id) pairs of a sequence of entries, a missing value being "None".
Pairs(es) ==
    [i \in DOMAIN es |->
        <<IF es[i].dict /\ es[i].name # <<>> THEN es[i].name[1] ELSE "None",
          IF es[i].dict /\ es[i].id # <<>> THEN es[i].id[1] ELSE "None">>]

ListDisplayed == pc = "done" /\ branch = "L111" /\ srv.status = 200

\* C6 (as stated): the entries displayed are the body when it is a sequence,
\* else the value of assistants when the object has that field, else the value
\* of data when the object has that field, else none (stated for fields that,
\* when present, hold a sequence).
C6_FirstPresentField ==
    (/\ ListDisplayed
     /\ srv.body.assistants.p \in {"absent", "list"}
     /\ srv.body.data.p \in {"absent", "list"}) =>
        Summaries(out) =
            Pairs(IF srv.body.kind = "list" THEN srv.body.items
                  ELSE IF srv.body.assistants.p # "absent" THEN srv.body.assistants.v
                  ELSE IF srv.body.data.p # "absent" THEN srv.body.data.v
                  ELSE <<>>)

\* C6 (amended): the entries displayed are the body when it is a sequence, else
\* the value of assistants when that field holds a non-empty sequence, else the
\* value of data when that field holds a non-empty sequence, else none; the same
\* entries as a bare sequence, under assistants or under data display alike.
C6_FirstNonEmptyField ==
    ListDisplayed =>
        /\ Summaries(out) =
             Pairs(IF srv.body.kind = "list" THEN srv.body.items
                   ELSE IF srv.body.assistants.p = "list" /\ srv.body.assistants.v # <<>>
                   THEN srv.body.assistants.v
                   ELSE IF srv.body.data.p = "list" /\ srv.body.data.v # <<>>
                   THEN srv.body.data.v
                   ELSE <<>>)
        /\ \A es \in EntryLists :
              srv.body \in {ListBody(es), WrappedBody(List(es), Absent),
                            WrappedBody(Absent, List(es))}
                  => Summaries(out) = Pairs(es)

C6_Witness ==
    /\ ListDisplayed
    /\ srv.body.kind = "obj"
    /\ srv.body.assistants = List(<<>>)
    /\ srv.body.data.p = "list" /\ Len(srv.body.data.v) = 2
    /\ Len(Summaries(out)) = 2

DetailBlock ==
    HasLine("IdleConfig") /\ HasLine("Messages") /\ HasLine("Timeout") /\ HasLine("MaxCount")

AnyDetailLine ==
    HasLine("IdleConfig") \/ HasLine("Messages") \/ HasLine("Timeout") \/ HasLine("MaxCount")

C8_AtMostOneRequest ==
    /\ Len(requests) <= 1
    /\ (pc = "done" /\ requests # <<>> /\ srv.status \notin 200..299 => rc = <<1>>)
    /\ (rc = <<1>> => pc = "done" /\ Len(requests) = 1)
    /\ (branch \in {"L111", "L117", "L132"} =>
           \A i \in DOMAIN requests : requests[i].method = "GET")

C8_Witness ==
    /\ pc = "done" /\ rc = <<1>> /\ srv.status = 404
    /\ Len(requests) = 1 /\ branch = "L132"

\* C9: the bearer token and the assistant id of a request are never one of the
\* flags; with VAPI_API_KEY unset and only flags on the command line, main
\* returns 2 and no request is sent.
C9_FlagNeverPositional ==
    /\ \A i \in DOMAIN requests :
          /\ requests[i].auth[2] \notin {"--list", "--get", "--update-idle"}
          /\ requests[i].url[Len(requests[i].url)] \notin {"--list", "--get", "--update-idle"}
    /\ (/\ env.VAPI_API_KEY = <<>>
        /\ \A i \in 2..Len(argv) : argv[i] \in {"--list", "--get", "--update-idle"}
        /\ pc # "start")
           => (pc = "done" /\ rc = <<2>> /\ requests = <<>>)

\* C10: with an API key main runs exactly one of List, Get and UpdateIdle, so it
\* returns 0 or 1 when it returns; 2 is returned only without an API key, and the
\* exits at lines 116, 123 and 135 are never taken.
C10_LaterExitsUnreachable ==
    /\ branch \notin {"L116", "L123", "L135"}
    /\ (rc = <<2>> => ~KeyGiven /\ branch = "L107")
    /\ (KeyGiven /\ pc # "start" =>
           /\ branch \in {"L111", "L117", "L124", "L132"}
           /\ Len(requests) = 1
           /\ (pc = "done" => rc \in {<<0>>, <<1>>}))

C10_Witness ==
    /\ pc = "done" /\ rc = <<0>>
    /\ HasFlag("--get") /\ ~IdGiven
    /\ branch = "L111"

====
